---- MODULE Spec2Model ----
(***************************************************************************)
(* The conversational session controller of the Lexi dashboard:            *)
(* front-end/lexi-web-app/src/app/dashboard/dashboard/dashboard.ts.        *)
(*                                                                         *)
(* One action per handler of the Dashboard component.  The browser runs    *)
(* handlers one at a time, so every handler is one atomic step; what it    *)
(* schedules (a FileReader load, the delayed backend stub) stays in        *)
(* `reading` / `pending` until its callback runs as a step of its own.     *)
(*                                                                         *)
(* Text is a sequence of one-character strings (so that trim() is          *)
(* computed, not assumed); fixed literals of the source are single         *)
(* tokens.  Array indices are 0-based as in the source; Seq positions are  *)
(* index + 1.  `undefined` images are the empty sequence and `undefined`   *)
(* isVoice is FALSE (both are only ever tested for truthiness).            *)
(***************************************************************************)
EXTENDS Integers, Sequences, FiniteSets, TLC

VARIABLES
    messages,              \* Message[]                       (dashboard.ts:23)
    userInput,             \* string                          (dashboard.ts:24)
    isTyping,              \* boolean                         (dashboard.ts:25)
    canStopGeneration,     \* boolean                         (dashboard.ts:26)
    stagedImages,          \* string[] of data URLs           (dashboard.ts:31)
    showImagePreview,      \* boolean                         (dashboard.ts:32)
    editingMessageIndex,   \* number | null                   (dashboard.ts:39)
    editedText,            \* string                          (dashboard.ts:40)
    isRecording,           \* boolean                         (dashboard.ts:43)
    isListening,           \* boolean                         (dashboard.ts:44)
    voiceTranscript,       \* string                          (dashboard.ts:45)
    recordingDuration,     \* number                          (dashboard.ts:47)
    recordingTimer,        \* the interval handle is not null  (dashboard.ts:48)
    networkErrorCount,     \* number                          (dashboard.ts:49)
    totalErrorCount,       \* number                          (dashboard.ts:50)
    hasVoiceTranscript,    \* boolean                         (dashboard.ts:51)
    conversationHistory,   \* Array<{role, content}>          (dashboard.ts:54)
    reading,               \* FileReader loads in flight: blob -> how many
    pending,               \* scheduled backend completions, oldest first
    engine,                \* state of the SpeechRecognition object
    permissionRequests,    \* startRecording calls awaiting getUserMedia
    timers,                \* armed 100 ms timers of the voice handlers, oldest first
    safetyTimeouts,        \* the 3 s timers of startRecording, oldest first
    leakedInterval,        \* a tick interval whose handle was overwritten is live
    voiceAlert,            \* what the voice handler that ran last alerted
    formatText,            \* the text the template hands to formatMessage
    formatHtml,            \* what formatMessage returned for it
    lastOp                 \* the handler that ran last (observer only)

vars == <<messages, userInput, isTyping, canStopGeneration, stagedImages,
          showImagePreview, editingMessageIndex, editedText, voiceTranscript,
          hasVoiceTranscript, conversationHistory, reading, pending, lastOp,
          isRecording, isListening, recordingDuration, recordingTimer,
          networkErrorCount, totalErrorCount, engine, permissionRequests, timers,
          safetyTimeouts, leakedInterval, voiceAlert, formatText, formatHtml>>

stagingVars == <<stagedImages, showImagePreview, reading>>
editVars == <<editingMessageIndex, editedText>>
captureVars == <<isRecording, isListening, recordingDuration, recordingTimer,
                 networkErrorCount, totalErrorCount, engine, permissionRequests,
                 timers, safetyTimeouts, leakedInterval, voiceAlert>>
renderVars == <<formatText, formatHtml>>
voiceVars == <<voiceTranscript, hasVoiceTranscript, captureVars, renderVars>>
chatVars == <<messages, conversationHistory, isTyping, canStopGeneration, pending>>

-----------------------------------------------------------------------------
(* Program constants *)

MAX_IMAGES == 5
MaxFileSize == 10485760          \* 10 * 1024 * 1024
NULL == -1                       \* editingMessageIndex === null
MaxRecordingSeconds == 120       \* `if (this.recordingDuration >= 120)`

\* lastOp names these handlers and calls every other one "other"
ObservedOps == { "saveEdit", "stopGeneration", "regenerateResponse",
                 "cancelVoiceRecording" }

Observe(op) == IF op \in ObservedOps THEN op ELSE "other"

(* Bounds of the model *)

MaxMsgs == 2          \* Spec: the user sends only while the timeline is shorter
GatedMsgs == 3        \* SpecGated: the same
MaxPending == 2       \* the user starts a generation only with fewer timers pending
MaxLoad == 6          \* SpecStaging: images staged or being read at once
MaxStaged == 2        \* SpecPreview: images staged or being read at once
MaxBatch == 2         \* SpecStaging: files of one file-picker selection
MaxStarts == 1        \* SpecVoice: startRecording calls awaiting or less than 3 s old
MaxTimers == 1        \* SpecVoice: onend is reported with fewer 100 ms timers armed
MaxErrors == 5        \* SpecVoice: errors are reported while fewer were counted
MaxTranscript == 2    \* SpecVoice: results are reported while the transcript is shorter
MaxClicks == 2        \* SpecTick, SpecSession: startRecording calls awaiting or less than 3 s old
MaxSeconds == 121     \* SpecTick: the interval ticks while the duration is smaller
MaxTicks == 1         \* SpecSession: the same
MaxFaults == 1        \* SpecSession: errors are reported while fewer were counted
MaxPieces == 5        \* SpecFormat: spans and plain pieces of a rendered line
MaxLines == 3         \* SpecFormat: lines of a rendered text

-----------------------------------------------------------------------------
(* Text *)

RECURSIVE TrimStart(_)
TrimStart(s) == IF s # <<>> /\ Head(s) = " " THEN TrimStart(Tail(s)) ELSE s

RECURSIVE TrimEnd(_)
TrimEnd(s) ==
    IF s # <<>> /\ s[Len(s)] = " " THEN TrimEnd(SubSeq(s, 1, Len(s) - 1)) ELSE s

\* String.prototype.trim
Trim(s) == TrimEnd(TrimStart(s))

\* what the user types into the input box or the edit box
Inputs == { <<" ">>, <<" ", "b", " ">> }

\* the texts selectSuggestion is called with
Suggestions == { <<"a">> }


StoppedText == <<"[Generation stopped by user]">>

TextResponse ==
    <<"Hi! Thanks for your message. I'm currently not connected to Azure OpenAI yet.">>

ImageResponse(prompt, imageCount) ==
    LET imageText == IF imageCount = 1 THEN "image"
                     ELSE ToString(imageCount) \o " images"
    IN  IF prompt # <<>>
        THEN <<"Hi! Thanks for your message. I'm currently not connected to Azure OpenAI yet hence I'll review the ",
               imageText, " later once connected.">>
        ELSE <<"I see you've shared ", imageText,
               ". I'm currently not connected to Azure OpenAI yet hence I'll review them later once connected.">>

-----------------------------------------------------------------------------
(* Blobs offered by the clipboard and the file picker *)

PngType == <<"image", "/", "png">>
TextType == <<"text", "/", "plain">>

Blobs == { [type |-> PngType,  size |-> 1],
           [type |-> PngType,  size |-> MaxFileSize + 1],
           [type |-> TextType, size |-> 1] }

\* items[i].type.indexOf('image') !== -1
ContainsImage(type) == \E i \in 1..Len(type) : type[i] = "image"

\* file.type.startsWith('image/')
StartsWithImageSlash(type) == Len(type) >= 2 /\ type[1] = "image" /\ type[2] = "/"

\* FileReader.readAsDataURL: "data:<type>;base64,<payload>"; the payload stands
\* for the bytes, which the size identifies here
DataUrl(blob) == [scheme |-> "data", type |-> blob.type, payload |-> blob.size]

RECURSIVE SumReading(_, _)
SumReading(rd, S) ==
    IF S = {} THEN 0
    ELSE LET b == CHOOSE x \in S : TRUE IN rd[b] + SumReading(rd, S \ {b})

\* number of FileReader loads in flight
NumReading(rd) == SumReading(rd, Blobs)

-----------------------------------------------------------------------------
(* Input staging *)

\* addImageToStaging: the limit is tested when the read is started; the push
\* happens later, in reader.onload
AddImageToStaging(rd, blob) ==
    IF Len(stagedImages) >= MAX_IMAGES
    THEN rd                                         \* alert, return
    ELSE [rd EXCEPT ![blob] = @ + 1]                \* reader.readAsDataURL(blob)

\* the paste listener, for a clipboard whose first image item is `blob`
\* (a clipboard without one leaves the listener without effect)
pasteListener(blob) ==
    /\ reading' = IF ContainsImage(blob.type)
                  THEN AddImageToStaging(reading, blob)
                  ELSE reading
    /\ lastOp' = Observe("paste")
    /\ UNCHANGED <<stagedImages, showImagePreview, userInput, chatVars, editVars, voiceVars>>

\* the loop of onFileSelected over the FileList
RECURSIVE StageFiles(_, _)
StageFiles(rd, files) ==
    IF files = <<>> THEN rd
    ELSE LET file == Head(files) IN
         IF ~StartsWithImageSlash(file.type) THEN StageFiles(rd, Tail(files))
         ELSE IF file.size > MaxFileSize THEN StageFiles(rd, Tail(files))
         ELSE StageFiles(AddImageToStaging(rd, file), Tail(files))

\* the reads in flight after onFileSelected was called with `files`
SelectFiles(rd, files) ==
    IF Len(files) = 0 THEN rd
    ELSE IF Len(stagedImages) + Len(files) > MAX_IMAGES THEN rd   \* alert, return
    ELSE StageFiles(rd, files)

onFileSelected(files) ==
    /\ reading' = SelectFiles(reading, files)
    /\ lastOp' = Observe("onFileSelected")
    /\ UNCHANGED <<stagedImages, showImagePreview, userInput, chatVars, editVars, voiceVars>>

\* reader.onload of one read in flight
readerOnload(blob) ==
    /\ reading[blob] > 0
    /\ reading' = [reading EXCEPT ![blob] = @ - 1]
    /\ stagedImages' = Append(stagedImages, DataUrl(blob))
    /\ showImagePreview' = TRUE
    /\ lastOp' = Observe("readerOnload")
    /\ UNCHANGED <<userInput, chatVars, editVars, voiceVars>>

\* Array.prototype.splice(index, 1)
Splice1(seq, index) ==
    SubSeq(seq, 1, index) \o SubSeq(seq, index + 2, Len(seq))

\* removal that leaves the preview as it is
removeImage_KeepsPreview(index) ==
    /\ index \in 0..(Len(stagedImages) - 1)
    /\ stagedImages' = Splice1(stagedImages, index)
    /\ lastOp' = Observe("removeImage")
    /\ UNCHANGED <<showImagePreview, reading, userInput, chatVars, editVars, voiceVars>>

removeImage(index) ==
    /\ index \in 0..(Len(stagedImages) - 1)
    /\ stagedImages' = Splice1(stagedImages, index)
    /\ showImagePreview' = IF Len(stagedImages') = 0 THEN FALSE ELSE showImagePreview
    /\ lastOp' = Observe("removeImage")
    /\ UNCHANGED <<reading, userInput, chatVars, editVars, voiceVars>>

cancelAllImages ==
    /\ stagedImages' = <<>>
    /\ showImagePreview' = FALSE
    /\ lastOp' = Observe("cancelAllImages")
    /\ UNCHANGED <<reading, userInput, chatVars, editVars, voiceVars>>

-----------------------------------------------------------------------------
(* Timeline, history mirror, generation *)

Message(text, sender, images, isVoice) ==
    [text |-> text, sender |-> sender, images |-> images, isVoice |-> isVoice]

addMessage(msgs, text, sender, images, isVoice) ==
    Append(msgs, Message(text, sender, images, isVoice))

addToConversationHistory(hist, role, content) ==
    Append(hist, [role |-> role, content |-> content])

\* A scheduled completion of the backend stub (requestAnimationFrame, then
\* setTimeout 1000).  kind/prompt/imageCount are what its closure captured;
\* cancelled and answered observe it: stopGeneration was invoked while it was
\* the generation in flight, and how many assistant messages were appended
\* for it so far.
Generation(kind, prompt, imageCount) ==
    [kind |-> kind, prompt |-> prompt, imageCount |-> imageCount,
     cancelled |-> FALSE, answered |-> 0]

simulateAIResponse(pend, userMessage) ==
    Append(pend, Generation("text", userMessage, 0))

simulateImageAnalysisResponse(pend, prompt, imageCount) ==
    Append(pend, Generation("image", prompt, imageCount))

\* the response a completion computes from what it captured
ResponseOf(g) ==
    IF g.kind = "text" THEN TextResponse ELSE ImageResponse(g.prompt, g.imageCount)

\* content mirrored for a text message
TextContent(trimmedInput, isVoiceMessage) ==
    IF isVoiceMessage THEN <<"[Voice] ">> \o trimmedInput ELSE trimmedInput

\* content mirrored for a message with images
ImageContent(prompt, imageCount) ==
    IF prompt # <<>>
    THEN <<"[" \o ToString(imageCount) \o " image(s)] ">> \o prompt
    ELSE <<"[" \o ToString(imageCount) \o " image(s)]">>

sendImagesWithMessage(input) ==
    LET images == stagedImages
        prompt == Trim(input)
    IN  /\ messages' = addMessage(messages, prompt, "user", images, FALSE)
        /\ conversationHistory' =
               addToConversationHistory(conversationHistory, "user",
                                        ImageContent(prompt, Len(images)))
        /\ userInput' = <<>>
        /\ stagedImages' = <<>>
        /\ showImagePreview' = FALSE
        /\ isTyping' = TRUE
        /\ canStopGeneration' = TRUE
        /\ pending' = simulateImageAnalysisResponse(pending, prompt, Len(images))
        /\ UNCHANGED <<voiceVars, reading, editVars>>

\* the body of sendMessage, reading the input box as `input`
sendMessageFrom(input) ==
    LET trimmedInput == Trim(input) IN
    IF Len(stagedImages) > 0 THEN sendImagesWithMessage(input)
    ELSE IF trimmedInput = <<>>
    THEN /\ userInput' = input
         /\ UNCHANGED <<chatVars, stagingVars, editVars, voiceVars>>
    ELSE LET isVoiceMessage == Len(voiceTranscript) > 0 IN
         /\ messages' = addMessage(messages, trimmedInput, "user", <<>>, isVoiceMessage)
         /\ conversationHistory' =
                addToConversationHistory(conversationHistory, "user",
                                         TextContent(trimmedInput, isVoiceMessage))
         /\ userInput' = <<>>
         /\ voiceTranscript' = <<>>
         /\ hasVoiceTranscript' = FALSE
         /\ UNCHANGED <<captureVars, renderVars>>
         /\ isTyping' = TRUE
         /\ canStopGeneration' = TRUE
         /\ pending' = simulateAIResponse(pending, trimmedInput)
         /\ UNCHANGED <<stagingVars, editVars>>

sendMessage ==
    /\ sendMessageFrom(userInput)
    /\ lastOp' = Observe("sendMessage")

selectSuggestion(suggestion) ==
    /\ sendMessageFrom(suggestion)
    /\ lastOp' = Observe("selectSuggestion")

\* the input box is bound two-way to userInput
typeInput(text) ==
    /\ userInput' = text
    /\ lastOp' = Observe("typeInput")
    /\ UNCHANGED <<chatVars, stagingVars, editVars, voiceVars>>

\* the observation stopGeneration leaves on the generation in flight (the one
\* started last)
MarkCancelled(pend) ==
    IF pend = <<>> THEN pend
    ELSE [pend EXCEPT ![Len(pend)].cancelled = TRUE,
                      ![Len(pend)].answered = @ + 1]

\* a stop that leaves the typing indicator set
stopGeneration_KeepsTyping ==
    /\ lastOp' = Observe("stopGeneration")
    /\ IF ~canStopGeneration
       THEN UNCHANGED <<chatVars, userInput, stagingVars, editVars, voiceVars>>
       ELSE /\ canStopGeneration' = FALSE
            /\ messages' = addMessage(messages, StoppedText, "lexi", <<>>, FALSE)
            /\ conversationHistory' =
                   addToConversationHistory(conversationHistory, "assistant", StoppedText)
            /\ pending' = MarkCancelled(pending)
            /\ UNCHANGED <<isTyping, userInput, stagingVars, editVars, voiceVars>>

stopGeneration ==
    /\ lastOp' = Observe("stopGeneration")
    /\ IF ~canStopGeneration
       THEN UNCHANGED <<chatVars, userInput, stagingVars, editVars, voiceVars>>
       ELSE /\ canStopGeneration' = FALSE
            /\ isTyping' = FALSE
            /\ messages' = addMessage(messages, StoppedText, "lexi", <<>>, FALSE)
            /\ conversationHistory' =
                   addToConversationHistory(conversationHistory, "assistant", StoppedText)
            /\ pending' = MarkCancelled(pending)
            /\ UNCHANGED <<userInput, stagingVars, editVars, voiceVars>>

\* the timer callback without its test of the flag
CompletionStopped_Unchecked(flag) == FALSE

\* the timer callback returning whatever the flag
CompletionStopped_Always(flag) == TRUE

\* `if (!this.canStopGeneration) return;` at the head of the timer callback
CompletionStopped(flag) == ~flag

\* the timer callback of the oldest scheduled completion
backendCompletion ==
    /\ pending # <<>>
    /\ pending' = Tail(pending)
    /\ lastOp' = Observe("backendCompletion")
    /\ IF CompletionStopped(canStopGeneration)
       THEN UNCHANGED <<messages, conversationHistory, isTyping, canStopGeneration>>
       ELSE LET response == ResponseOf(Head(pending)) IN
            /\ canStopGeneration' = FALSE
            /\ isTyping' = FALSE
            /\ messages' = addMessage(messages, response, "lexi", <<>>, FALSE)
            /\ conversationHistory' =
                   addToConversationHistory(conversationHistory, "assistant", response)
    /\ UNCHANGED <<userInput, stagingVars, editVars, voiceVars>>

-----------------------------------------------------------------------------
(* Edit and regenerate *)

startEditingMessage(index) ==
    /\ index \in 0..(Len(messages) - 1)
    /\ lastOp' = Observe("startEditingMessage")
    /\ IF messages[index + 1].sender # "user"
       THEN UNCHANGED editVars
       ELSE /\ editingMessageIndex' = index
            /\ editedText' = messages[index + 1].text
    /\ UNCHANGED <<chatVars, userInput, stagingVars, voiceVars>>

\* the edit box is bound two-way to editedText while an edit is open
typeEdit(text) ==
    /\ editingMessageIndex # NULL
    /\ editedText' = text
    /\ lastOp' = Observe("typeEdit")
    /\ UNCHANGED <<editingMessageIndex, chatVars, userInput, stagingVars, voiceVars>>

cancelEdit ==
    /\ editingMessageIndex' = NULL
    /\ editedText' = <<>>
    /\ lastOp' = Observe("cancelEdit")
    /\ UNCHANGED <<chatVars, userInput, stagingVars, voiceVars>>

\* Array.prototype.slice(0, end)
Slice0(seq, end) == SubSeq(seq, 1, IF end < Len(seq) THEN end ELSE Len(seq))

\* the test of saveEdit on the buffer as typed, not trimmed
EditIsEmpty_Untrimmed(text) == text = <<>>

\* `if (!trimmedText)` of saveEdit
EditIsEmpty(text) == Trim(text) = <<>>

\* saveEdit replacing the text and keeping what follows the message
SaveEditMessages_NoTruncation(msgs, index, trimmedText) ==
    [msgs EXCEPT ![index + 1].text = trimmedText]

\* saveEdit on the timeline: the text is replaced, then everything after the
\* message is dropped
SaveEditMessages(msgs, index, trimmedText) ==
    Slice0([msgs EXCEPT ![index + 1].text = trimmedText], index + 1)

\* saveEdit on the history mirror: the slice
SaveEditHistory(hist, index) == Slice0(hist, (index + 1) * 2)

\* saveEdit on the history mirror: the entry whose content is then assigned
SaveEditEntry(index) == index * 2

\* Two statements of saveEdit dereference an array element that may be
\* missing; the TypeError ends the handler there and what was assigned before
\* it stays assigned.
saveEdit ==
    /\ lastOp' = Observe("saveEdit")
    /\ UNCHANGED <<userInput, stagingVars, voiceVars>>
    /\ IF editingMessageIndex = NULL
       THEN UNCHANGED <<chatVars, editVars>>
       ELSE LET trimmedText == Trim(editedText)
                index == editingMessageIndex
            IN
            IF EditIsEmpty(editedText)
            THEN UNCHANGED <<chatVars, editVars>>                  \* alert, return
            ELSE IF index >= Len(messages)
            THEN UNCHANGED <<chatVars, editVars>>                  \* TypeError, line 570
            ELSE LET hist == SaveEditHistory(conversationHistory, index) IN
                 /\ messages' = SaveEditMessages(messages, index, trimmedText)
                 /\ IF SaveEditEntry(index) >= Len(hist)
                    THEN /\ conversationHistory' = hist            \* TypeError, line 577
                         /\ UNCHANGED <<editVars, isTyping, canStopGeneration, pending>>
                    ELSE /\ conversationHistory' =
                                [hist EXCEPT ![SaveEditEntry(index) + 1].content = trimmedText]
                         /\ editingMessageIndex' = NULL
                         /\ editedText' = <<>>
                         /\ isTyping' = TRUE
                         /\ canStopGeneration' = TRUE
                         /\ pending' = simulateAIResponse(pending, trimmedText)

RECURSIVE ScanBack(_, _)
ScanBack(msgs, i) ==
    IF i < 0 THEN -1
    ELSE IF msgs[i + 1].sender = "user" THEN i
    ELSE ScanBack(msgs, i - 1)

\* the scan taking the last message, whoever sent it
findLastUserMessageIndex_LastMessage(msgs) == Len(msgs) - 1

findLastUserMessageIndex(msgs) == ScanBack(msgs, Len(msgs) - 1)

regenerateResponse ==
    /\ lastOp' = Observe("regenerateResponse")
    /\ UNCHANGED <<userInput, stagingVars, editVars, voiceVars>>
    /\ IF Len(messages) = 0 \/ isTyping
       THEN UNCHANGED chatVars
       ELSE LET lastUserMessageIndex == findLastUserMessageIndex(messages) IN
            IF lastUserMessageIndex = -1
            THEN UNCHANGED chatVars
            ELSE LET lastUserMessage == messages[lastUserMessageIndex + 1].text
                     lastUserImages == messages[lastUserMessageIndex + 1].images
                 IN
                 /\ messages' = Slice0(messages, lastUserMessageIndex + 1)
                 /\ conversationHistory' =
                        Slice0(conversationHistory, (lastUserMessageIndex + 1) * 2)
                 /\ isTyping' = TRUE
                 /\ canStopGeneration' = TRUE
                 /\ pending' = IF Len(lastUserImages) > 0
                               THEN simulateImageAnalysisResponse(
                                        pending, lastUserMessage, Len(lastUserImages))
                               ELSE simulateAIResponse(pending, lastUserMessage)

clearConversationHistory ==
    /\ messages' = <<>>
    /\ conversationHistory' = <<>>
    /\ lastOp' = Observe("clearConversationHistory")
    /\ UNCHANGED <<isTyping, canStopGeneration, pending, userInput, stagingVars,
                   editVars, voiceVars>>

-----------------------------------------------------------------------------
(* Voice capture *)

(* The SpeechRecognition object is the platform's.  It is "inactive" until   *)
(* start() is called, "starting" until it reports onstart, then "running";   *)
(* stop() leaves it "stopping" until it reports onend.  start() on an        *)
(* object that is not inactive throws ("recognition has already started").   *)
(* It reports errors while it is not inactive and results once it runs,      *)
(* also between stop() and onend.                                            *)

\* start() is not called
EngineStart_NotCalled(e) == e

\* recognition.start(), when it does not throw
EngineStart(e) == IF e = "inactive" THEN "starting" ELSE e

\* recognition.start() throws
StartThrows(e) == e # "inactive"

\* recognition.stop()
EngineStop(e) == IF e \in { "starting", "running" } THEN "stopping" ELSE e

\* event.error of the platform's error events
ErrorCodes == { "network", "no-speech", "aborted", "not-allowed",
                "service-not-allowed", "audio-capture" }

NoAlert == "none"

TooManyErrorsAlert ==
    "Voice recognition is not working properly in Edge. Please use Chrome or Safari for voice input, or type your message instead."

MicrophoneDeniedAlert == "Microphone access was denied. Please enable microphone permissions."

PermissionDeniedAlert ==
    "Microphone access denied. Please enable microphone permissions in your browser settings."

StartFailedAlert ==
    "Speech recognition failed to start. This can happen in Edge. Please try again or use Chrome/Safari."

RestartFailedAlert == "Failed to start voice recording. Please try again."

\* recognition given up after the third network error only
TooManyErrors_ThreeNetworkErrors(networkErrors, totalErrors) ==
    networkErrors >= 3 \/ totalErrors >= 5

\* `if (this.networkErrorCount >= 2 || this.totalErrorCount >= 5)` of onerror
TooManyErrors(networkErrors, totalErrors) == networkErrors >= 2 \/ totalErrors >= 5

\* the state of the component outside voice capture
otherVars == <<chatVars, stagingVars, editVars, renderVars>>

\* what resetRecordingState assigns
sessionVars == <<isRecording, isListening, voiceTranscript, recordingDuration,
                 recordingTimer, networkErrorCount, totalErrorCount,
                 hasVoiceTranscript, engine>>

\* the timers and requests of the voice handlers
asyncVars == <<permissionRequests, timers, safetyTimeouts, leakedInterval>>

\* a reset that leaves the error counters
resetRecordingState_KeepsCounters(e) ==
    /\ engine' = EngineStop(e)
    /\ recordingTimer' = FALSE
    /\ isRecording' = FALSE
    /\ isListening' = FALSE
    /\ voiceTranscript' = <<>>
    /\ recordingDuration' = 0
    /\ UNCHANGED <<networkErrorCount, totalErrorCount>>
    /\ hasVoiceTranscript' = FALSE

\* resetRecordingState, called with the recognition object in state e
resetRecordingState(e) ==
    /\ engine' = EngineStop(e)
    /\ recordingTimer' = FALSE
    /\ isRecording' = FALSE
    /\ isListening' = FALSE
    /\ voiceTranscript' = <<>>
    /\ recordingDuration' = 0
    /\ networkErrorCount' = 0
    /\ totalErrorCount' = 0
    /\ hasVoiceTranscript' = FALSE

stopRecording ==
    IF ~isRecording THEN UNCHANGED sessionVars
    ELSE /\ engine' = EngineStop(engine)
         /\ recordingTimer' = FALSE
         /\ isRecording' = FALSE
         /\ isListening' = FALSE
         /\ recordingDuration' = 0
         /\ hasVoiceTranscript' = IF Trim(userInput) # <<>> THEN TRUE
                                  ELSE hasVoiceTranscript
         /\ UNCHANGED <<voiceTranscript, networkErrorCount, totalErrorCount>>

\* toggleVoiceRecording; startRecording runs up to its await of getUserMedia
toggleVoiceRecording ==
    /\ lastOp' = Observe("toggleVoiceRecording")
    /\ voiceAlert' = NoAlert
    /\ IF isRecording
       THEN stopRecording /\ UNCHANGED permissionRequests
       ELSE /\ permissionRequests' = permissionRequests + 1
            /\ UNCHANGED sessionVars
    /\ UNCHANGED <<timers, safetyTimeouts, leakedInterval, userInput, otherVars>>

\* startRecording after getUserMedia rejected
permissionDenied ==
    /\ permissionRequests > 0
    /\ permissionRequests' = permissionRequests - 1
    /\ lastOp' = Observe("startRecording")
    /\ voiceAlert' = PermissionDeniedAlert
    /\ UNCHANGED <<sessionVars, timers, safetyTimeouts, leakedInterval, userInput, otherVars>>

\* a 3 s timer of startRecording with the variable its callback closes over;
\* probed: the 100 ms timer of the same call has run; confirmed observes that
\* onstart was reported since the call
SafetyTimeout(armed) ==
    [armed |-> armed, recognitionStarted |-> FALSE, probed |-> FALSE, confirmed |-> FALSE]

\* startRecording after getUserMedia resolved
permissionGranted ==
    /\ permissionRequests > 0
    /\ permissionRequests' = permissionRequests - 1
    /\ lastOp' = Observe("startRecording")
    /\ voiceAlert' = NoAlert
    /\ voiceTranscript' = <<>>
    /\ userInput' = <<>>
    /\ recordingDuration' = 0
    /\ networkErrorCount' = 0
    /\ totalErrorCount' = 0
    /\ IF ~StartThrows(engine)
       THEN /\ engine' = EngineStart(engine)
            /\ safetyTimeouts' = Append(safetyTimeouts, SafetyTimeout(TRUE))
            /\ timers' = Append(timers, "probe")
       ELSE /\ engine' = EngineStop(engine)              \* "already started"
            /\ safetyTimeouts' = Append(safetyTimeouts, SafetyTimeout(FALSE))
            /\ timers' = timers \o << "retry", "probe" >>
    /\ isRecording' = TRUE
    /\ isListening' = TRUE
    /\ recordingTimer' = TRUE
    /\ leakedInterval' = (leakedInterval \/ recordingTimer)
    /\ UNCHANGED <<hasVoiceTranscript, otherVars>>

\* recognition.onstart
onstart ==
    /\ engine = "starting"
    /\ engine' = "running"
    /\ isListening' = TRUE
    /\ safetyTimeouts' = [k \in 1..Len(safetyTimeouts) |->
                             [safetyTimeouts[k] EXCEPT !.confirmed = TRUE]]
    /\ lastOp' = Observe("onstart")
    /\ voiceAlert' = NoAlert
    /\ UNCHANGED <<isRecording, voiceTranscript, recordingDuration, recordingTimer,
                   networkErrorCount, totalErrorCount, hasVoiceTranscript,
                   permissionRequests, timers, leakedInterval, userInput, otherVars>>

\* the phrases the platform recognises
Phrases == { <<"a", " ">> }

Segment(transcript, isFinal) == [transcript |-> transcript, isFinal |-> isFinal]

Segments == { Segment(t, f) : t \in Phrases, f \in BOOLEAN }

\* event.results from event.resultIndex on, of the platform's result events
ResultEvents == { <<s>> : s \in Segments } \cup { <<s, t>> : s \in Segments, t \in Segments }

\* every segment is committed, final or not
RECURSIVE FinalTranscript_CommitsInterim(_, _)
FinalTranscript_CommitsInterim(acc, results) ==
    IF results = <<>> THEN acc
    ELSE FinalTranscript_CommitsInterim(acc \o Head(results).transcript \o <<" ">>,
                                        Tail(results))

RECURSIVE FinalTranscript(_, _)
FinalTranscript(acc, results) ==
    IF results = <<>> THEN acc
    ELSE IF Head(results).isFinal
         THEN FinalTranscript(acc \o Head(results).transcript \o <<" ">>, Tail(results))
         ELSE FinalTranscript(acc, Tail(results))

RECURSIVE InterimTranscript(_, _)
InterimTranscript(acc, results) ==
    IF results = <<>> THEN acc
    ELSE IF Head(results).isFinal
         THEN InterimTranscript(acc, Tail(results))
         ELSE InterimTranscript(acc \o Head(results).transcript, Tail(results))

\* the words of a dictation, as the platform reports them: the first of an
\* utterance bare, a later one with the blank before it
Words == { <<"a">>, <<" ", "b">> }

\* event.results from event.resultIndex on, of the result events of a dictation
DictationEvents ==
    LET segments == { Segment(t, f) : t \in Words, f \in BOOLEAN }
    IN  { <<s>> : s \in segments } \cup { <<s, t>> : s \in segments, t \in segments }

\* recognition.onresult
onresult(results) ==
    LET interimTranscript == InterimTranscript(<<>>, results)
        finalTranscript == FinalTranscript(voiceTranscript, results)
    IN  /\ engine \in { "running", "stopping" }
        /\ voiceTranscript' = Trim(finalTranscript)
        /\ userInput' = IF interimTranscript # <<>>
                        THEN Trim(voiceTranscript' \o <<" ">> \o interimTranscript)
                        ELSE voiceTranscript'
        /\ lastOp' = Observe("onresult")
        /\ voiceAlert' = NoAlert
        /\ UNCHANGED <<isRecording, isListening, recordingDuration, recordingTimer,
                       networkErrorCount, totalErrorCount, hasVoiceTranscript, engine,
                       asyncVars, otherVars>>

\* recognition.onerror
onerror(code) ==
    /\ engine # "inactive"
    /\ lastOp' = Observe("onerror")
    /\ UNCHANGED <<asyncVars, userInput, otherVars>>
    /\ IF code = "network"
       THEN IF TooManyErrors(networkErrorCount + 1, totalErrorCount + 1)
            THEN /\ voiceAlert' = TooManyErrorsAlert
                 /\ resetRecordingState(engine)
            ELSE /\ voiceAlert' = NoAlert
                 /\ networkErrorCount' = networkErrorCount + 1
                 /\ totalErrorCount' = totalErrorCount + 1
                 /\ UNCHANGED <<isRecording, isListening, voiceTranscript,
                                recordingDuration, recordingTimer, hasVoiceTranscript,
                                engine>>
       ELSE IF code \in { "no-speech", "aborted" }
       THEN /\ voiceAlert' = NoAlert
            /\ totalErrorCount' = totalErrorCount + 1
            /\ UNCHANGED <<isRecording, isListening, voiceTranscript, recordingDuration,
                           recordingTimer, networkErrorCount, hasVoiceTranscript, engine>>
       ELSE IF code \in { "not-allowed", "service-not-allowed" }
       THEN /\ voiceAlert' = MicrophoneDeniedAlert
            /\ resetRecordingState(engine)
       ELSE /\ voiceAlert' = NoAlert
            /\ totalErrorCount' = totalErrorCount + 1
            /\ UNCHANGED <<isRecording, isListening, voiceTranscript, recordingDuration,
                           recordingTimer, networkErrorCount, hasVoiceTranscript, engine>>

\* the test of the restart timer on the session
RestartWanted_Unchecked(recording) == TRUE

\* `if (this.isRecording && this.recognition)` of the restart timer
RestartWanted(recording) == recording

\* recognition.onend
onend ==
    /\ engine # "inactive"
    /\ lastOp' = Observe("onend")
    /\ voiceAlert' = NoAlert
    /\ UNCHANGED <<permissionRequests, safetyTimeouts, leakedInterval, userInput, otherVars>>
    /\ IF isRecording /\ totalErrorCount < 5
       THEN /\ timers' = Append(timers, "restart")
            /\ engine' = "inactive"
            /\ isListening' = FALSE
            /\ UNCHANGED <<isRecording, voiceTranscript, recordingDuration, recordingTimer,
                           networkErrorCount, totalErrorCount, hasVoiceTranscript>>
       ELSE IF totalErrorCount >= 5
       THEN /\ resetRecordingState("inactive")
            /\ UNCHANGED timers
       ELSE /\ engine' = "inactive"
            /\ isListening' = FALSE
            /\ UNCHANGED <<timers, isRecording, voiceTranscript, recordingDuration,
                           recordingTimer, networkErrorCount, totalErrorCount,
                           hasVoiceTranscript>>

\* the timer of onend; a start() that throws here is not caught and ends the
\* callback
restartTimer ==
    /\ timers # <<>> /\ Head(timers) = "restart"
    /\ timers' = Tail(timers)
    /\ engine' = IF RestartWanted(isRecording) THEN EngineStart(engine) ELSE engine
    /\ lastOp' = Observe("restartTimer")
    /\ voiceAlert' = NoAlert
    /\ UNCHANGED <<isRecording, isListening, voiceTranscript, recordingDuration,
                   recordingTimer, networkErrorCount, totalErrorCount,
                   hasVoiceTranscript, permissionRequests, safetyTimeouts,
                   leakedInterval, userInput, otherVars>>

\* the timer of startRecording after "already started"
retryTimer ==
    /\ timers # <<>> /\ Head(timers) = "retry"
    /\ timers' = Tail(timers)
    /\ lastOp' = Observe("retryTimer")
    /\ UNCHANGED <<permissionRequests, safetyTimeouts, leakedInterval, userInput, otherVars>>
    /\ IF ~StartThrows(engine)
       THEN /\ engine' = EngineStart(engine)
            /\ voiceAlert' = NoAlert
            /\ UNCHANGED <<isRecording, isListening, voiceTranscript, recordingDuration,
                           recordingTimer, networkErrorCount, totalErrorCount,
                           hasVoiceTranscript>>
       ELSE /\ voiceAlert' = RestartFailedAlert
            /\ resetRecordingState(engine)

\* the 3 s timer the 100 ms timer of startRecording belongs to: the oldest one
\* whose 100 ms timer has not run
Unprobed(timeouts) == CHOOSE k \in 1..Len(timeouts) :
                          /\ ~timeouts[k].probed
                          /\ \A j \in 1..(k - 1) : timeouts[j].probed

\* the 100 ms timer of startRecording: recognitionStarted = this.isListening;
\* clearTimeout(safetyTimeout)
startedProbe ==
    /\ timers # <<>> /\ Head(timers) = "probe"
    /\ timers' = Tail(timers)
    /\ safetyTimeouts' = [safetyTimeouts EXCEPT ![Unprobed(safetyTimeouts)] =
                             [@ EXCEPT !.recognitionStarted = isListening,
                                       !.armed = FALSE,
                                       !.probed = TRUE]]
    /\ lastOp' = Observe("startedProbe")
    /\ voiceAlert' = NoAlert
    /\ UNCHANGED <<sessionVars, permissionRequests, leakedInterval, userInput, otherVars>>

\* 3 s after a startRecording: the callback of safetyTimeout runs if the timer
\* is still armed.  The 100 ms timer of the same call is due 2.9 s earlier and
\* has run by then.
safetyTimeoutDue ==
    /\ safetyTimeouts # <<>> /\ Head(safetyTimeouts).probed
    /\ safetyTimeouts' = Tail(safetyTimeouts)
    /\ lastOp' = Observe("safetyTimeout")
    /\ UNCHANGED <<permissionRequests, timers, leakedInterval, userInput, otherVars>>
    /\ IF /\ Head(safetyTimeouts).armed
          /\ ~Head(safetyTimeouts).recognitionStarted
          /\ isRecording
       THEN /\ voiceAlert' = StartFailedAlert
            /\ resetRecordingState(engine)
       ELSE /\ voiceAlert' = NoAlert
            /\ UNCHANGED sessionVars

cancelVoiceRecording ==
    /\ resetRecordingState(engine)
    /\ userInput' = <<>>
    /\ lastOp' = Observe("cancelVoiceRecording")
    /\ voiceAlert' = NoAlert
    /\ UNCHANGED <<asyncVars, otherVars>>

\* the callback of setInterval in startRecording.  It runs every second while
\* its interval is live: the one recordingTimer holds, or one whose handle a
\* later startRecording overwrote.  stopRecording returns at once when the
\* session is not recording.
tick ==
    /\ recordingTimer \/ leakedInterval
    /\ lastOp' = Observe("tick")
    /\ voiceAlert' = NoAlert
    /\ IF recordingDuration + 1 >= MaxRecordingSeconds /\ isRecording
       THEN stopRecording
       ELSE /\ recordingDuration' = recordingDuration + 1
            /\ UNCHANGED <<isRecording, isListening, voiceTranscript, recordingTimer,
                           networkErrorCount, totalErrorCount, hasVoiceTranscript,
                           engine>>
    /\ UNCHANGED <<asyncVars, userInput, otherVars>>

-----------------------------------------------------------------------------
(* Markdown rendering *)

(* A text is a sequence of characters; the tags the renderer inserts are     *)
(* single tokens ("<strong>", "<li>", ...), which no pattern of the renderer *)
(* tells from a letter.  "\n" is the line break; "backtick" and "bullet"     *)
(* stand for the characters U+0060 and U+2022.                               *)

\* length of the longest run of elements other than c that starts at s[i]
RECURSIVE RunLen(_, _, _)
RunLen(s, i, c) == IF i > Len(s) \/ s[i] = c THEN 0 ELSE 1 + RunLen(s, i + 1, c)

\* /\*\*([^*]+)\*\*/ matched at s[i]: the length of the group, 0 without a match
StrongAt(s, i) ==
    LET n == RunLen(s, i + 2, "*") IN
    IF /\ i + 1 <= Len(s) /\ s[i] = "*" /\ s[i + 1] = "*"
       /\ n >= 1
       /\ i + n + 3 <= Len(s) /\ s[i + n + 2] = "*" /\ s[i + n + 3] = "*"
    THEN n ELSE 0

\* /(?<!\*)\*(?!\*)([^*]+)\*(?!\*)/ matched at s[i]
EmAt(s, i) ==
    LET n == RunLen(s, i + 1, "*") IN
    IF /\ s[i] = "*"
       /\ (i = 1 \/ s[i - 1] # "*")
       /\ n >= 1
       /\ i + n + 1 <= Len(s)
       /\ (i + n + 2 > Len(s) \/ s[i + n + 2] # "*")
    THEN n ELSE 0

\* the pattern of the code span, a backtick, ([^backtick]+), a backtick,
\* matched at s[i]
CodeAt(s, i) ==
    LET n == RunLen(s, i + 1, "backtick") IN
    IF s[i] = "backtick" /\ n >= 1 /\ i + n + 1 <= Len(s) THEN n ELSE 0

\* the group of the pattern of a tag matched at s[i], and the width of its
\* delimiter
SpanAt(tag, s, i) ==
    IF tag = "strong" THEN StrongAt(s, i)
    ELSE IF tag = "em" THEN EmAt(s, i)
    ELSE CodeAt(s, i)

DelimiterWidth(tag) == IF tag = "strong" THEN 2 ELSE 1

\* String.prototype.replace(pattern /g, <tag>$1</tag>), from s[i] on
RECURSIVE ReplaceSpans(_, _, _)
ReplaceSpans(tag, s, i) ==
    IF i > Len(s) THEN <<>>
    ELSE LET n == SpanAt(tag, s, i)
             w == DelimiterWidth(tag)
         IN  IF n > 0
             THEN << "<" \o tag \o ">" >> \o SubSeq(s, i + w, i + w + n - 1)
                      \o << "</" \o tag \o ">" >>
                      \o ReplaceSpans(tag, s, i + n + 2 * w)
             ELSE << s[i] >> \o ReplaceSpans(tag, s, i + 1)

\* the inline pass without its first replace
applyInlineFormatting_NoStrong(text) ==
    ReplaceSpans("code", ReplaceSpans("em", text, 1), 1)

applyInlineFormatting(text) ==
    ReplaceSpans("code", ReplaceSpans("em", ReplaceSpans("strong", text, 1), 1), 1)

\* String.prototype.split('\n')
RECURSIVE SplitLines(_)
SplitLines(s) ==
    LET n == RunLen(s, 1, "\n") IN
    IF n = Len(s) THEN << s >>
    ELSE << SubSeq(s, 1, n) >> \o SplitLines(SubSeq(s, n + 2, Len(s)))

Digits == { "0", "1", "2", "3", "4", "5", "6", "7", "8", "9" }

\* length of the longest run of elements of S that starts at s[i]
RECURSIVE RunIn(_, _, _)
RunIn(s, i, S) == IF i > Len(s) \/ s[i] \notin S THEN 0 ELSE 1 + RunIn(s, i + 1, S)

\* trimmedLine.match(/^(\d+)\.\s+(.+)$/): the second group, <<>> without a match
NumberedMatch(trimmedLine) ==
    LET d == RunIn(trimmedLine, 1, Digits)
        w == RunIn(trimmedLine, d + 2, { " " })
    IN  IF /\ d >= 1
           /\ d + 1 <= Len(trimmedLine) /\ trimmedLine[d + 1] = "."
           /\ w >= 1
           /\ d + 1 + w < Len(trimmedLine)
        THEN SubSeq(trimmedLine, d + 2 + w, Len(trimmedLine))
        ELSE <<>>

\* trimmedLine.match(/^[-•*]\s+(.+)$/): the group, <<>> without a match
BulletMatch(trimmedLine) ==
    LET w == RunIn(trimmedLine, 2, { " " }) IN
    IF /\ Len(trimmedLine) >= 1 /\ trimmedLine[1] \in { "-", "bullet", "*" }
       /\ w >= 1
       /\ 1 + w < Len(trimmedLine)
    THEN SubSeq(trimmedLine, 2 + w, Len(trimmedLine))
    ELSE <<>>

openOrderedList(result, isOpen) == IF ~isOpen THEN Append(result, << "<ol>" >>) ELSE result

openUnorderedList(result, isOpen) == IF ~isOpen THEN Append(result, << "<ul>" >>) ELSE result

\* nothing is pushed for an open list
closeUnorderedList_Never(result, isOpen) == result

closeUnorderedList(result, isOpen) == IF isOpen THEN Append(result, << "</ul>" >>) ELSE result

\* the loop of parseLines over the lines left, and what follows the loop
RECURSIVE ParseFrom(_, _, _, _)
ParseFrom(lines, result, inOrderedList, inUnorderedList) ==
    IF lines = <<>>
    THEN LET closed == IF inUnorderedList
                       THEN result \o << << "</ul>" >>, << "</li>" >> >>
                       ELSE result
         IN  IF inOrderedList THEN Append(closed, << "</ol>" >>) ELSE closed
    ELSE LET trimmedLine == Trim(Head(lines))
             numberedMatch == NumberedMatch(trimmedLine)
             bulletMatch == BulletMatch(trimmedLine)
         IN
         IF trimmedLine = <<>>
         THEN ParseFrom(Tail(lines), closeUnorderedList(result, inUnorderedList),
                        inOrderedList, FALSE)
         ELSE IF numberedMatch # <<>>
         THEN ParseFrom(Tail(lines),
                        Append(openOrderedList(closeUnorderedList(result, inUnorderedList),
                                               inOrderedList),
                               << "<li>" >> \o numberedMatch),
                        TRUE, FALSE)
         ELSE IF bulletMatch # <<>>
         THEN ParseFrom(Tail(lines),
                        Append(openUnorderedList(result, inUnorderedList),
                               << "<li>" >> \o bulletMatch \o << "</li>" >>),
                        inOrderedList, TRUE)
         ELSE LET afterUl == IF inUnorderedList
                             THEN result \o << << "</ul>" >>, << "</li>" >> >>
                             ELSE result
                  afterOl == IF inOrderedList THEN Append(afterUl, << "</ol>" >>)
                             ELSE afterUl
              IN  ParseFrom(Tail(lines),
                            Append(afterOl, << "<p>" >> \o trimmedLine \o << "</p>" >>),
                            FALSE, FALSE)

parseLines(lines) == ParseFrom(lines, <<>>, FALSE, FALSE)

\* Array.prototype.join('')
RECURSIVE Join(_)
Join(strings) == IF strings = <<>> THEN <<>> ELSE Head(strings) \o Join(Tail(strings))

\* formatMessage; the SafeHtml it returns wraps this string unchanged
FormatMessage(text) ==
    IF text = <<>> THEN <<>>
    ELSE Join(parseLines(SplitLines(applyInlineFormatting(text))))

\* the template renders a message: formatMessage(formatText)
formatMessage ==
    /\ formatHtml' = FormatMessage(formatText)
    /\ UNCHANGED <<formatText, lastOp, userInput, chatVars, stagingVars, editVars,
                   voiceTranscript, hasVoiceTranscript, captureVars>>

(* The texts rendered *)

\* the pieces of a line: a bold span, an italic span, a code span, plain text
StrongPiece == << "*", "*", "a", "*", "*" >>
EmPiece == << "*", "b", "*" >>
CodePiece == << "backtick", "c", "backtick" >>
PlainPiece == << " ", "a", "n", "d", " " >>

Pieces == { StrongPiece, EmPiece, CodePiece, PlainPiece }

\* the lines of a text: numbered, bullet, blank, plain
NumberedLines == { << "1", ".", " ", "o" >>, << "2", ".", " ", "t" >> }
BulletLine == << "-", " ", "u" >>
BlankLine == << >>
PlainLine == << "d" >>

Lines == NumberedLines \cup { BulletLine, BlankLine, PlainLine }

SeqsUpTo(S, n) == UNION { [1..k -> S] : k \in 1..n }

\* Array.prototype.join('\n')
RECURSIVE JoinLines(_)
JoinLines(lines) ==
    IF Len(lines) = 1 THEN Head(lines)
    ELSE Head(lines) \o << "\n" >> \o JoinLines(Tail(lines))

\* single lines of up to MaxPieces pieces and texts of up to MaxLines lines
FormatTexts ==
    { Join(pieces) : pieces \in SeqsUpTo(Pieces, MaxPieces) }
    \cup { JoinLines(lines) : lines \in SeqsUpTo(Lines, MaxLines) }

-----------------------------------------------------------------------------
(* Specifications *)

Constructed ==
    /\ messages = <<>>
    /\ userInput = <<>>
    /\ isTyping = FALSE
    /\ canStopGeneration = FALSE
    /\ stagedImages = <<>>
    /\ showImagePreview = FALSE
    /\ editingMessageIndex = NULL
    /\ editedText = <<>>
    /\ voiceTranscript = <<>>
    /\ hasVoiceTranscript = FALSE
    /\ conversationHistory = <<>>
    /\ reading = [b \in Blobs |-> 0]
    /\ pending = <<>>
    /\ lastOp = "init"
    /\ isRecording = FALSE
    /\ isListening = FALSE
    /\ recordingDuration = 0
    /\ recordingTimer = FALSE
    /\ networkErrorCount = 0
    /\ totalErrorCount = 0
    /\ engine = "inactive"
    /\ permissionRequests = 0
    /\ timers = <<>>
    /\ safetyTimeouts = <<>>
    /\ leakedInterval = FALSE
    /\ voiceAlert = NoAlert

\* the component after construction, with nothing rendered
Init ==
    /\ Constructed
    /\ formatText = <<>>
    /\ formatHtml = <<>>

\* the component after construction, with a text to render
InitFormat ==
    /\ Constructed
    /\ formatText \in FormatTexts
    /\ formatHtml = <<>>

\* images staged or being read
Load == Len(stagedImages) + NumReading(reading)

\* FileLists of at most n files
FileLists(n) == UNION { [1..k -> Blobs] : k \in 1..n }

\* a handler that may start a generation, within the bounds of the chat runs
MayStart == Len(messages) < MaxMsgs /\ Len(pending) < MaxPending

\* the same within the bounds of the runs behind the host surface
MayStartGated == Len(messages) < GatedMsgs /\ Len(pending) < MaxPending

\* The conversation in text: send, stop, edit, regenerate and the backend
\* completions.
Next ==
    \/ MayStart /\ \E s \in Suggestions : selectSuggestion(s)
    \/ stopGeneration
    \/ backendCompletion
    \/ \E index \in 0..(Len(messages) - 1) : startEditingMessage(index)
    \/ \E text \in Inputs : typeEdit(text)
    \/ cancelEdit
    \/ Len(pending) < MaxPending /\ saveEdit
    \/ Len(pending) < MaxPending /\ regenerateResponse

Spec == Init /\ [][Next]_vars

\* Generations and their timers: send, stop, the edit of a message as it
\* stands, regenerate and the backend completions; a callback that setTimeout
\* has scheduled runs in the end
NextLive ==
    \/ MayStart /\ \E s \in Suggestions : selectSuggestion(s)
    \/ stopGeneration
    \/ backendCompletion
    \/ \E index \in 0..(Len(messages) - 1) : startEditingMessage(index)
    \/ Len(pending) < MaxPending /\ saveEdit
    \/ Len(pending) < MaxPending /\ regenerateResponse

SpecLive == Init /\ [][NextLive]_vars /\ WF_vars(backendCompletion)

\* Input staging: paste, file selection, the reads completing, removal and
\* sending, with up to MaxLoad images around.
NextStaging ==
    \/ Load < MaxLoad /\ \E blob \in Blobs : pasteListener(blob)
    \/ \E files \in FileLists(MaxBatch) :
           Load + Len(files) <= MaxLoad /\ onFileSelected(files)
    \/ \E blob \in Blobs : readerOnload(blob)
    \/ \E index \in 0..(Len(stagedImages) - 1) : removeImage(index)
    \/ cancelAllImages
    \/ messages = <<>> /\ sendMessage              \* the first send of a session
    \/ backendCompletion

SpecStaging == Init /\ [][NextStaging]_vars

\* The conversation in text as a host surface offers it that disables the
\* triggers of a generation while one is in flight: send, stop, edit,
\* regenerate and the backend completions.
NextGated ==
    \/ ~isTyping /\ MayStartGated /\ \E s \in Suggestions : selectSuggestion(s)
    \/ stopGeneration
    \/ backendCompletion
    \/ \E index \in 0..(Len(messages) - 1) : startEditingMessage(index)
    \/ \E text \in Inputs : typeEdit(text)
    \/ cancelEdit
    \/ ~isTyping /\ Len(pending) < MaxPending /\ saveEdit
    \/ Len(pending) < MaxPending /\ regenerateResponse

SpecGated == Init /\ [][NextGated]_vars

\* The conversation with "clear history": send, stop, regenerate, the backend
\* completions and clearConversationHistory, which can leave a timeline that
\* holds assistant messages only.
NextClear ==
    \/ MayStart /\ \E s \in Suggestions : selectSuggestion(s)
    \/ stopGeneration
    \/ backendCompletion
    \/ Len(pending) < MaxPending /\ regenerateResponse
    \/ clearConversationHistory

SpecClear == Init /\ [][NextClear]_vars

\* Voice capture: the microphone button, the permission request, the events
\* of the recognition object and the timers of the handlers.
NextVoice ==
    \/ /\ isRecording \/ permissionRequests + Len(safetyTimeouts) < MaxStarts
       /\ toggleVoiceRecording
    \/ permissionGranted
    \/ permissionDenied
    \/ onstart
    \/ Len(voiceTranscript) < MaxTranscript /\ \E results \in ResultEvents : onresult(results)
    \/ totalErrorCount < MaxErrors /\ \E code \in ErrorCodes : onerror(code)
    \/ Len(timers) < MaxTimers /\ onend
    \/ restartTimer
    \/ retryTimer
    \/ startedProbe
    \/ safetyTimeoutDue
    \/ cancelVoiceRecording

SpecVoice == Init /\ [][NextVoice]_vars

\* the recording interval: starts (also a second one while the first awaits the
\* permission), ticks, stop and cancel
NextTick ==
    \/ /\ isRecording \/ permissionRequests + Len(safetyTimeouts) < MaxClicks
       /\ toggleVoiceRecording
    \/ permissionGranted \/ permissionDenied
    \/ recordingDuration < MaxSeconds /\ tick
    \/ startedProbe \/ safetyTimeoutDue \/ retryTimer \/ cancelVoiceRecording

SpecTick == Init /\ [][NextTick]_vars

\* One voice session after another with everything the platform reports, one
\* segment per result event, and the recording interval
NextSession ==
    \/ /\ isRecording \/ permissionRequests + Len(safetyTimeouts) < MaxClicks
       /\ toggleVoiceRecording
    \/ permissionGranted \/ permissionDenied \/ onstart
    \/ Len(voiceTranscript) < MaxTranscript /\ \E s \in Segments : onresult(<<s>>)
    \/ totalErrorCount < MaxFaults /\ \E code \in ErrorCodes : onerror(code)
    \/ Len(timers) < MaxTimers /\ onend
    \/ recordingDuration < MaxTicks /\ tick
    \/ restartTimer \/ retryTimer \/ startedProbe \/ safetyTimeoutDue \/ cancelVoiceRecording

SpecSession == Init /\ [][NextSession]_vars

\* A dictation: one session after another, each started after the start before
\* it has settled, with result events of one or two segments and the restarts
\* after end events
NextDictation ==
    \/ /\ isRecording \/ (permissionRequests = 0 /\ safetyTimeouts = <<>>)
       /\ toggleVoiceRecording
    \/ permissionGranted \/ onstart
    \/ Len(voiceTranscript) < MaxTranscript /\ \E results \in DictationEvents : onresult(results)
    \/ timers = <<>> /\ onend
    \/ restartTimer \/ startedProbe \/ safetyTimeoutDue \/ cancelVoiceRecording

SpecDictation == Init /\ [][NextDictation]_vars

\* Staging with its preview: images are staged, removed, cancelled and sent,
\* with or without a prompt
NextPreview ==
    \/ Load < MaxStaged /\ \E blob \in Blobs : pasteListener(blob)
    \/ \E files \in FileLists(MaxBatch) :
           Load + Len(files) <= MaxStaged /\ onFileSelected(files)
    \/ \E blob \in Blobs : readerOnload(blob)
    \/ \E index \in 0..(Len(stagedImages) - 1) : removeImage(index)
    \/ cancelAllImages
    \/ \E text \in Inputs : typeInput(text)
    \/ messages = <<>> /\ sendMessage              \* the first send of a session
    \/ backendCompletion

SpecPreview == Init /\ [][NextPreview]_vars

\* Composing a message: it is dictated, one session after another with the
\* results arriving while the session records, or typed; images are pasted one
\* at a time; it is sent on the text path or the image path
NextCompose ==
    \/ /\ isRecording \/ (permissionRequests = 0 /\ safetyTimeouts = <<>>)
       /\ toggleVoiceRecording
    \/ permissionGranted \/ onstart
    \/ /\ isRecording /\ Len(voiceTranscript) < MaxTranscript
       /\ \E s \in Segments : onresult(<<s>>)
    \/ startedProbe \/ safetyTimeoutDue
    \/ Load = 0 /\ \E blob \in Blobs : pasteListener(blob)
    \/ \E blob \in Blobs : readerOnload(blob)
    \/ \E text \in Inputs : typeInput(text)
    \/ MayStart /\ sendMessage
    \/ backendCompletion

SpecCompose == Init /\ [][NextCompose]_vars

\* Editing in a conversation that can be cleared: send, stop, regenerate, the
\* backend completions and clearConversationHistory, with an edit opened and
\* saved in between
NextEditing ==
    \/ MayStart /\ \E s \in Suggestions : selectSuggestion(s)
    \/ stopGeneration
    \/ backendCompletion
    \/ \E index \in 0..(Len(messages) - 1) : startEditingMessage(index)
    \/ Len(pending) < MaxPending /\ saveEdit
    \/ Len(pending) < MaxPending /\ regenerateResponse
    \/ clearConversationHistory

SpecEditing == Init /\ [][NextEditing]_vars

\* Rendering: formatMessage applied to a text.
NextFormat == formatMessage

SpecFormat == InitFormat /\ [][NextFormat]_vars

-----------------------------------------------------------------------------
(* Vocabulary of the properties *)

SentinelMessage == Message(StoppedText, "lexi", <<>>, FALSE)

SentinelEntry == [role |-> "assistant", content |-> StoppedText]

\* this step is the timer callback of the oldest scheduled completion
CompletionStep == Len(pending') < Len(pending)

\* this step starts a generation
StartStep == Len(pending') > Len(pending)

\* this step is a run of saveEdit with an edit open on the user message at
\* editingMessageIndex and a buffer that is not empty after trimming
AcceptedEditStep ==
    /\ lastOp' = "saveEdit"
    /\ editingMessageIndex # NULL
    /\ editingMessageIndex < Len(messages)
    /\ messages[editingMessageIndex + 1].sender = "user"
    /\ Trim(editedText) # <<>>

\* the scheduled completions stopGeneration has not cancelled
Live(pend) == { i \in 1..Len(pend) : ~pend[i].cancelled }

NumAssistant(msgs) == Cardinality({ i \in 1..Len(msgs) : msgs[i].sender = "lexi" })

RoleOf(sender) == IF sender = "user" THEN "user" ELSE "assistant"

-----------------------------------------------------------------------------
(* Input staging: C1 *)

\* C1: in every reachable state, whatever the interleaving of paste and
\* file-selection calls with the reads they started (and with removeImage,
\* cancelAllImages and send), at most MAX_IMAGES = 5 images are staged.
C1_StagedWithinLimit == Len(stagedImages) <= MAX_IMAGES

-----------------------------------------------------------------------------
(* Cancellation and the generation lifecycle: C2 .. C6 *)

\* C2: stopGeneration invoked while a generation is in flight, before its
\* completion fires, appends exactly one "[Generation stopped by user]"
\* assistant message to the timeline and to the history mirror and leaves
\* isTyping and canStopGeneration false (a further stopGeneration appends
\* nothing); and as long as no generation is started afterwards
\* (canStopGeneration stays false), the completion of the cancelled generation
\* appends nothing.
C2_CancelAppendsOneSentinel ==
    [][ /\ (lastOp' = "stopGeneration" /\ canStopGeneration /\ isTyping) =>
             /\ messages' = Append(messages, SentinelMessage)
             /\ conversationHistory' = Append(conversationHistory, SentinelEntry)
             /\ ~isTyping'
             /\ ~canStopGeneration'
        /\ (lastOp' = "stopGeneration" /\ ~canStopGeneration) =>
             UNCHANGED <<messages, conversationHistory>>
        /\ (CompletionStep /\ Head(pending).cancelled /\ ~canStopGeneration) =>
             UNCHANGED <<messages, conversationHistory, isTyping, canStopGeneration>>
      ]_vars

\* C2 witness: a generation was started and cancelled, its completion has
\* fired since, and the timeline ends with the one sentinel.
C2_Witness ==
    /\ pending = <<>>
    /\ ~isTyping
    /\ Len(messages) = 2
    /\ messages[1].sender = "user"
    /\ messages[2] = SentinelMessage
    /\ conversationHistory[Len(conversationHistory)] = SentinelEntry

\* C3: the completion of a cancelled generation never appends to the timeline
\* or the history, also when a new generation was started before it fires;
\* and a reply that is appended is the one of the generation started last
\* (text-only or image-analysis, matching that request).
C3_CancelledNeverAppends ==
    [][ CompletionStep =>
          /\ Head(pending).cancelled => UNCHANGED <<messages, conversationHistory>>
          /\ messages' # messages =>
                messages' = Append(messages,
                                   Message(ResponseOf(pending[Len(pending)]), "lexi", <<>>, FALSE))
      ]_vars

\* C4: at most one generation is in flight: there is never more than one
\* pending completion that was not cancelled, and no operation starts a
\* generation while isTyping is true.
C4_AtMostOneInFlight ==
    [][ /\ Cardinality(Live(pending')) <= 1
        /\ StartStep => ~isTyping
      ]_vars

\* C5: every accepted send appends exactly one user message, and for each
\* generation exactly one assistant message is appended: the reply when its
\* completion fires, or the sentinel if it was cancelled first; the step that
\* appends it leaves isTyping false.
C5_OneAssistantPerGeneration ==
    [][ /\ (StartStep /\ lastOp' = "other") =>
             /\ Len(messages') = Len(messages) + 1
             /\ messages'[Len(messages')].sender = "user"
        /\ CompletionStep =>
             Head(pending).answered + (IF messages' # messages THEN 1 ELSE 0) = 1
        /\ NumAssistant(messages') > NumAssistant(messages) => ~isTyping'
      ]_vars

\* C6: whenever no generation is in flight, the history mirror has length
\* 2 x (number of completed exchanges) and its entries correspond one-to-one,
\* in order, to the timeline messages (user -> user, lexi -> assistant).
C6_HistoryMirrorsTimeline ==
    ~isTyping =>
        /\ Len(conversationHistory) = 2 * NumAssistant(messages)
        /\ Len(conversationHistory) = Len(messages)
        /\ \A i \in 1..Len(messages) :
               conversationHistory[i].role = RoleOf(messages[i].sender)

-----------------------------------------------------------------------------
(* Edit: C7 .. C10 *)

\* C7: after saveEdit on the user message at index i with trimmed text T
\* (not empty), the timeline has exactly i+1 messages, the message at i has
\* text T, and the messages before i are unchanged.
C7_EditTruncatesTimeline ==
    [][ AcceptedEditStep =>
          /\ Len(messages') = editingMessageIndex + 1
          /\ messages'[editingMessageIndex + 1].text = Trim(editedText)
          /\ \A k \in 1..editingMessageIndex : messages'[k] = messages[k]
      ]_vars

\* C7 witness: saveEdit has just replaced the text of the first message by
\* "b" (a send produces "a") in a timeline that had been answered, and nothing
\* follows the message.
C7_Witness ==
    /\ lastOp = "saveEdit"
    /\ Len(messages) = 1
    /\ messages[1].text = <<"b">>
    /\ Len(conversationHistory) > 1

\* C8: after saveEdit on the user message at index i with text T the history
\* mirror holds exactly the entries mirroring messages 0..i, and the entry
\* mirroring message i has content T.
C8_EditTruncatesHistory ==
    [][ AcceptedEditStep =>
          /\ Len(conversationHistory') = editingMessageIndex + 1
          /\ conversationHistory'[editingMessageIndex + 1].content = Trim(editedText)
      ]_vars

\* C9: for every reachable timeline and every user message in it, saveEdit
\* with a buffer that is not empty after trimming runs to completion: the
\* edit is closed and a generation is in flight.
C9_EditCompletes ==
    [][ AcceptedEditStep =>
          /\ editingMessageIndex' = NULL
          /\ editedText' = <<>>
          /\ isTyping'
          /\ canStopGeneration'
      ]_vars

\* C10: saveEdit with a buffer that is empty after trimming changes neither
\* the timeline, the history mirror, the edit index and buffer nor the
\* in-flight flags, and starts no generation.
C10_EmptyEditMutatesNothing ==
    [][ (lastOp' = "saveEdit" /\ editingMessageIndex # NULL /\ Trim(editedText) = <<>>) =>
          UNCHANGED <<messages, conversationHistory, editingMessageIndex, editedText,
                      isTyping, canStopGeneration, pending>>
      ]_vars

\* C10 witness: saveEdit has just run on an open edit whose buffer holds only
\* white space, and the edit is still open with that buffer.
C10_Witness ==
    /\ lastOp = "saveEdit"
    /\ editingMessageIndex # NULL
    /\ editedText = <<" ">>

-----------------------------------------------------------------------------
(* Regenerate: C11, C12 *)

\* this step is a run of regenerateResponse on a timeline that is not empty
\* and holds a user message, with no generation in flight
RegenerateStep ==
    /\ lastOp' = "regenerateResponse"
    /\ Len(messages) > 0
    /\ ~isTyping
    /\ findLastUserMessageIndex(messages) # -1

\* this step is a run of regenerateResponse that its guards turn away
RegenerateRefusedStep ==
    /\ lastOp' = "regenerateResponse"
    /\ \/ Len(messages) = 0
       \/ isTyping
       \/ \A i \in 1..Len(messages) : messages[i].sender # "user"

\* C11: regenerateResponse on a timeline that is not empty and holds a user
\* message, with no generation in flight, cuts the timeline to end at the last
\* user message, cuts the history mirror to the entries mirroring exactly the
\* remaining messages, and starts one generation with that message's text, on
\* the image-analysis path iff the message carries at least one image.
C11_RegenerateTruncates ==
    [][ RegenerateStep =>
          LET i == findLastUserMessageIndex(messages)
              m == messages[i + 1]
          IN  /\ messages' = SubSeq(messages, 1, i + 1)
              /\ messages[i + 1].sender = "user"
              /\ \A k \in (i + 2)..Len(messages) : messages[k].sender # "user"
              /\ Len(conversationHistory') = Len(messages')
              /\ \A k \in 1..Len(messages') :
                     conversationHistory'[k].role = RoleOf(messages'[k].sender)
              /\ pending' = Append(pending,
                                   Generation(IF Len(m.images) > 0 THEN "image" ELSE "text",
                                              m.text, Len(m.images)))
      ]_vars

\* C12: regenerateResponse changes neither the timeline, the history mirror,
\* isTyping nor canStopGeneration and starts no generation whenever the
\* timeline is empty, a generation is in flight (isTyping), or the timeline
\* holds no user message.
C12_RegenerateRefused ==
    [][ RegenerateRefusedStep =>
          UNCHANGED <<messages, conversationHistory, isTyping, canStopGeneration, pending>>
      ]_vars

\* C12 witness: regenerateResponse has just run, with no generation in
\* flight, on a timeline that holds an assistant message and no user message,
\* and the timeline still is that.
C12_Witness ==
    /\ lastOp = "regenerateResponse"
    /\ ~isTyping
    /\ pending = <<>>
    /\ Len(messages) = 1
    /\ messages[1].sender = "lexi"

-----------------------------------------------------------------------------
(* Voice capture: C13 .. C16 *)

\* C13: while the session is recording, the second `network` error resets it
\* for good (isRecording and isListening false, transcript empty, both error
\* counters 0, the user alerted), whereas after a single `network` error the
\* session is still recording and a result that follows is applied to the
\* transcript with the session still recording.
C13_SecondNetworkErrorResets ==
    [][ /\ (onerror("network") /\ isRecording /\ networkErrorCount = 1) =>
             /\ ~isRecording'
             /\ ~isListening'
             /\ voiceTranscript' = <<>>
             /\ networkErrorCount' = 0
             /\ totalErrorCount' = 0
             /\ voiceAlert' = TooManyErrorsAlert
        /\ (onerror("network") /\ isRecording /\ networkErrorCount = 0
                               /\ totalErrorCount < 4) =>
             /\ isRecording'
             /\ networkErrorCount' = 1
             /\ voiceAlert' = NoAlert
             /\ UNCHANGED <<voiceTranscript, userInput>>
        /\ \A t \in Phrases :
             (onresult(<<Segment(t, TRUE)>>) /\ isRecording /\ networkErrorCount = 1) =>
                /\ isRecording'
                /\ networkErrorCount' = 1
                /\ voiceTranscript' = Trim(voiceTranscript \o t \o <<" ">>)
                /\ userInput' = voiceTranscript'
      ]_vars

\* C13 witness: a session in which a result was applied has been reset after
\* its network errors, with the alert.
C13_Witness ==
    /\ voiceAlert = TooManyErrorsAlert
    /\ ~isRecording
    /\ ~isListening
    /\ userInput = <<"a">>
    /\ voiceTranscript = <<>>

\* C14: an error event `no-speech` or `aborted` changes nothing of the voice
\* session: isRecording, isListening, the transcript, the input buffer, the
\* network-error counter and the total-error counter are as before.
C14_IgnorableErrorChangesNothing ==
    [][ \A code \in { "no-speech", "aborted" } :
          onerror(code) =>
             UNCHANGED <<isRecording, isListening, voiceTranscript, userInput,
                         networkErrorCount, totalErrorCount>>
      ]_vars

\* C15: when 3 s have passed since startRecording called start() and no
\* onstart was reported, and the session has not ended, the safety timer
\* resets the session (isRecording false) with the start-failure alert.
C15_UnconfirmedStartIsReset ==
    [][ (safetyTimeoutDue /\ ~Head(safetyTimeouts).confirmed /\ isRecording) =>
          /\ ~isRecording'
          /\ voiceAlert' = StartFailedAlert
      ]_vars

\* C16: on an end event, a session that is recording with fewer than 5 errors
\* counted gets a restart scheduled, and when its delay has passed the restart
\* starts the stopped recognition if the session is still recording and does
\* nothing otherwise; with 5 errors or more the session is reset; and for a
\* session that is not recording (after stopRecording or cancelVoiceRecording)
\* the end event schedules no restart.
C16_EndRestartsWhileRecording ==
    [][ /\ (onend /\ isRecording /\ totalErrorCount < 5) =>
             /\ timers' = Append(timers, "restart")
             /\ isRecording'
        /\ (onend /\ totalErrorCount >= 5) =>
             /\ ~isRecording'
             /\ ~isListening'
             /\ voiceTranscript' = <<>>
             /\ totalErrorCount' = 0
             /\ timers' = timers
        /\ (onend /\ ~isRecording) => timers' = timers
        /\ (restartTimer /\ isRecording /\ engine = "inactive") => engine' = "starting"
        /\ (restartTimer /\ ~isRecording) => engine' = engine
      ]_vars

\* C16 witness: the session is recording and capture is starting again after
\* an end event (isListening is false only since the end event).
C16_Witness ==
    /\ isRecording
    /\ ~isListening
    /\ engine = "starting"
    /\ timers = <<>>

-----------------------------------------------------------------------------
(* Input staging: C17, C18 *)

\* a candidate that passes the validation of the spec
ValidCandidate(blob) == StartsWithImageSlash(blob.type) /\ blob.size <= MaxFileSize

\* C17: in every reachable state, a file selection holding a valid candidate
\* (an image of at most 10 MB) made while fewer than 5 images are staged gets
\* a candidate staged, whatever the other candidates of the batch are: the
\* rejected ones do not keep the valid one that fits from being read.
C17_BatchStagedIndependently ==
    \A files \in FileLists(MaxBatch) :
        ( /\ Len(stagedImages) < MAX_IMAGES
          /\ \E i \in 1..Len(files) : ValidCandidate(files[i]) )
        => NumReading(SelectFiles(reading, files)) > NumReading(reading)

\* C18: every staged image, pasted or uploaded, has a MIME type starting with
\* `image/` and a size of at most 10 MB.
C18_StagedWereValidated ==
    \A i \in 1..Len(stagedImages) :
        /\ StartsWithImageSlash(stagedImages[i].type)
        /\ stagedImages[i].payload <= MaxFileSize

-----------------------------------------------------------------------------
(* Markdown rendering: C19, C20 *)

\* what a piece of a line is rendered as
RenderedPiece(piece) ==
    IF piece = StrongPiece THEN << "<strong>", "a", "</strong>" >>
    ELSE IF piece = EmPiece THEN << "<em>", "b", "</em>" >>
    ELSE IF piece = CodePiece THEN << "<code>", "c", "</code>" >>
    ELSE piece

NumberOf(piece, pieces) == Cardinality({ k \in 1..Len(pieces) : pieces[k] = piece })

IsPrefix(piece, line) ==
    Len(piece) <= Len(line) /\ SubSeq(line, 1, Len(piece)) = piece

\* the pieces a line was written with; << "?" >> stands for what is left of a
\* line that was not written with pieces
RECURSIVE PiecesOf(_)
PiecesOf(line) ==
    IF line = <<>> THEN <<>>
    ELSE IF \E piece \in Pieces : IsPrefix(piece, line)
    THEN LET piece == CHOOSE q \in Pieces : IsPrefix(q, line)
         IN  << piece >> \o PiecesOf(SubSeq(line, Len(piece) + 1, Len(line)))
    ELSE << << "?" >> >>

\* the line holds one bold span, one italic span and one code span, in any
\* order, with or without plain text before, between and after them
SpanLine(pieces) ==
    /\ \A k \in 1..Len(pieces) : pieces[k] \in Pieces
    /\ NumberOf(StrongPiece, pieces) = 1
    /\ NumberOf(EmPiece, pieces) = 1
    /\ NumberOf(CodePiece, pieces) = 1

\* "**a** and *b* and `c`"
ExampleLine == << StrongPiece, PlainPiece, EmPiece, PlainPiece, CodePiece >>

\* "<p><strong>a</strong> and <em>b</em> and <code>c</code></p>"
ExampleHtml ==
    << "<p>", "<strong>", "a", "</strong>", " ", "a", "n", "d", " ",
       "<em>", "b", "</em>", " ", "a", "n", "d", " ",
       "<code>", "c", "</code>", "</p>" >>

\* C19: formatMessage renders a single line that holds a bold span, an italic
\* span and a code span as one paragraph in which the spans are <strong>,
\* <em> and <code> and the rest of the (trimmed) line is as written; the line
\* "**a** and *b* and (backtick)c(backtick)" is rendered as
\* "<p><strong>a</strong> and <em>b</em> and <code>c</code></p>".
C19_InlineSpansRendered ==
    formatHtml # <<>> =>
        /\ LET pieces == PiecesOf(formatText) IN
           SpanLine(pieces) =>
              formatHtml = << "<p>" >>
                              \o Trim(Join([k \in 1..Len(pieces) |->
                                                RenderedPiece(pieces[k])]))
                              \o << "</p>" >>
        /\ formatText = Join(ExampleLine) => formatHtml = ExampleHtml

\* C19 witness: the example line has been rendered.
C19_Witness ==
    /\ formatText = << "*", "*", "a", "*", "*", " ", "a", "n", "d", " ",
                       "*", "b", "*", " ", "a", "n", "d", " ",
                       "backtick", "c", "backtick" >>
    /\ formatHtml = ExampleHtml

\* the texts made of n >= 1 numbered lines followed by a plain line
NumberedRuns ==
    { lines \in SeqsUpTo(Lines, MaxLines) :
          /\ Len(lines) >= 2
          /\ \A k \in 1..(Len(lines) - 1) : lines[k] \in NumberedLines
          /\ lines[Len(lines)] = PlainLine }

NumberOfToken(token, html) == Cardinality({ k \in 1..Len(html) : html[k] = token })

\* C20: for n >= 1 numbered lines followed by a plain line what is emitted
\* is one <ol> block with n <li> items, each of them closed, the list closed
\* after them, and then the plain line as one <p> paragraph.
C20_NumberedRunIsOneList ==
    formatHtml # <<>> =>
        \A lines \in NumberedRuns :
            formatText = JoinLines(lines) =>
               LET n == Len(lines) - 1 IN
               /\ formatHtml[1] = "<ol>"
               /\ NumberOfToken("<ol>", formatHtml) = 1
               /\ NumberOfToken("</ol>", formatHtml) = 1
               /\ NumberOfToken("<li>", formatHtml) = n
               /\ NumberOfToken("</li>", formatHtml) = n
               /\ NumberOfToken("<p>", formatHtml) = 1
               /\ SubSeq(formatHtml, Len(formatHtml) - 3, Len(formatHtml))
                      = << "</ol>", "<p>", "d", "</p>" >>

-----------------------------------------------------------------------------
(* C21: while the session records, every tick of the 1 s interval raises the *)
(* elapsed duration by one; the tick that brings it to 120 stops the session *)
(* (not recording, interval handle cleared); and the elapsed duration is at  *)
(* most 120 in every reachable state.                                        *)

C21_TickStopsAtLimit ==
    /\ [][ (tick /\ isRecording) =>
              IF recordingDuration + 1 < MaxRecordingSeconds
              THEN recordingDuration' = recordingDuration + 1 /\ isRecording'
              ELSE ~isRecording' /\ ~recordingTimer' ]_vars
    /\ [](recordingDuration <= MaxRecordingSeconds)

\* this step is startRecording after getUserMedia rejected
DeniedStep == permissionRequests' < permissionRequests /\ voiceAlert' = PermissionDeniedAlert

\* this step is startRecording after getUserMedia resolved
GrantedStep == permissionRequests' < permissionRequests /\ voiceAlert' # PermissionDeniedAlert

\* C22: startRecording first requests the microphone permission and changes
\* nothing until the answer.  On denial nothing of the voice session or the
\* input changes (an idle session stays idle; transcript, input buffer,
\* duration, counters and timers are as before).  On grant the transcript, the
\* input buffer, the duration and both error counters are reset, the session is
\* recording and listening, and an inactive recognition object is started.
C22_PermissionDecidesStart ==
    [][ /\ (toggleVoiceRecording /\ ~isRecording) =>
              /\ permissionRequests' = permissionRequests + 1
              /\ UNCHANGED <<sessionVars, userInput, timers, safetyTimeouts>>
        /\ DeniedStep =>
              /\ isRecording' = isRecording
              /\ isListening' = isListening
              /\ voiceTranscript' = voiceTranscript
              /\ userInput' = userInput
              /\ hasVoiceTranscript' = hasVoiceTranscript
              /\ recordingDuration' = recordingDuration
              /\ networkErrorCount' = networkErrorCount
              /\ totalErrorCount' = totalErrorCount
              /\ recordingTimer' = recordingTimer
              /\ engine' = engine
              /\ timers' = timers
              /\ safetyTimeouts' = safetyTimeouts
        /\ GrantedStep =>
              /\ voiceTranscript' = <<>>
              /\ userInput' = <<>>
              /\ recordingDuration' = 0
              /\ networkErrorCount' = 0
              /\ totalErrorCount' = 0
              /\ isRecording'
              /\ isListening'
              /\ recordingTimer'
              /\ engine = "inactive" => engine' = "starting"
      ]_vars

\* C22 witness: after a session that left text in the input buffer and a counted
\* error, a request was denied: the session is idle and both are still there.
C22_Witness ==
    /\ voiceAlert = PermissionDeniedAlert
    /\ ~isRecording
    /\ userInput # <<>>
    /\ totalErrorCount > 0
    /\ permissionRequests = 0

\* a text without its blanks
Squeeze(text) == SelectSeq(text, LAMBDA c : c # " ")

\* the segments of an event that are final (or that are interim), one after
\* another in the order of the event
RECURSIVE Said(_, _)
Said(results, final) ==
    IF results = <<>> THEN <<>>
    ELSE (IF Head(results).isFinal = final THEN Head(results).transcript ELSE <<>>)
             \o Said(Tail(results), final)

\* C23: every result event appends its final segments, in their order, to the
\* committed transcript and nothing else; the input buffer it displays is the
\* committed transcript followed by the interim segments of this event only (so
\* an interim segment of an earlier event is gone); no other step changes the
\* committed transcript except to empty it.  Texts are compared without their
\* blanks: the separators are the renderer's, and trim() removes them at the
\* ends.
C23_TranscriptIsFinalsInOrder ==
    [][ /\ UNCHANGED <<engine, isRecording, asyncVars>> =>
              \A results \in DictationEvents :
                 onresult(results) =>
                    /\ Squeeze(voiceTranscript')
                           = Squeeze(voiceTranscript) \o Squeeze(Said(results, TRUE))
                    /\ Squeeze(userInput')
                           = Squeeze(voiceTranscript') \o Squeeze(Said(results, FALSE))
        /\ voiceTranscript' \notin { voiceTranscript, <<>> } =>
              \E results \in DictationEvents : onresult(results)
      ]_vars

\* C23 witness: the final segments a, b were committed in this order, and the
\* input buffer shows them with the interim segment of the last event.
C23_Witness ==
    /\ isRecording
    /\ voiceTranscript = << "a", " ", "b" >>
    /\ userInput = << "a", " ", "b", " ", "a" >>

\* C24: stopRecording of a recording session (the microphone button, or the tick
\* that reaches the limit) leaves it not recording and not listening with the
\* interval handle cleared, keeps the input buffer, and leaves
\* hasVoiceTranscript true exactly when the trimmed input buffer is not empty.
C24_StopFinalizesInput ==
    [][ ((toggleVoiceRecording \/ tick) /\ isRecording /\ ~isRecording') =>
           /\ ~isListening'
           /\ ~recordingTimer'
           /\ userInput' = userInput
           /\ hasVoiceTranscript' = (Trim(userInput) # <<>>)
      ]_vars

\* this step is cancelVoiceRecording
CancelStep == lastOp' = "cancelVoiceRecording"

OpenAfter(tag, html, k) ==
    NumberOfToken("<" \o tag \o ">", SubSeq(html, 1, k))
        - NumberOfToken("</" \o tag \o ">", SubSeq(html, 1, k))

\* the kind of a line of the text
KindOf(line) ==
    IF Trim(line) = <<>> THEN "blank"
    ELSE IF line \in NumberedLines THEN "numbered"
    ELSE IF line = BulletLine THEN "bullet"
    ELSE "paragraph"

\* the unordered blocks of a text: a bullet line begins one unless the line
\* before it is a bullet line too
UnorderedBlocks(lines) ==
    Cardinality({ k \in 1..Len(lines) :
                    /\ KindOf(lines[k]) = "bullet"
                    /\ k > 1 => KindOf(lines[k - 1]) # "bullet" })

\* the ordered blocks of a text: a numbered line begins one unless a numbered
\* line precedes it with no paragraph line in between
OrderedBlocks(lines) ==
    Cardinality({ k \in 1..Len(lines) :
                    /\ KindOf(lines[k]) = "numbered"
                    /\ \A j \in 1..(k - 1) :
                          KindOf(lines[j]) = "numbered" =>
                             \E i \in (j + 1)..(k - 1) : KindOf(lines[i]) = "paragraph" })

\* C26: in what parseLines emits, a blank line closes an open unordered list
\* and leaves an ordered list open; a line that is neither blank nor a list item
\* closes every open list and becomes a paragraph; what is open at the end of
\* the input is closed.  So: at most one list of each kind is open at a time and
\* none is closed that is not open, no list is open where a paragraph begins or
\* after the last token, an unordered list is begun by every bullet line that
\* does not follow a bullet line, and an ordered list by every numbered line
\* not preceded by a numbered line of the same block.
C26_ListsAreClosed ==
    formatHtml # <<>> =>
        LET lines == SplitLines(formatText) IN
        /\ \A k \in 1..Len(formatHtml) :
              /\ OpenAfter("ul", formatHtml, k) \in { 0, 1 }
              /\ OpenAfter("ol", formatHtml, k) \in { 0, 1 }
              /\ formatHtml[k] = "<p>" =>
                    /\ OpenAfter("ul", formatHtml, k) = 0
                    /\ OpenAfter("ol", formatHtml, k) = 0
        /\ OpenAfter("ul", formatHtml, Len(formatHtml)) = 0
        /\ OpenAfter("ol", formatHtml, Len(formatHtml)) = 0
        /\ NumberOfToken("<ul>", formatHtml) = UnorderedBlocks(lines)
        /\ NumberOfToken("<ol>", formatHtml) = OrderedBlocks(lines)
        /\ NumberOfToken("<p>", formatHtml)
              = Cardinality({ k \in 1..Len(lines) : KindOf(lines[k]) = "paragraph" })

\* C26 witness: a numbered line, a bullet line under it and a plain line: the
\* plain line closed both lists.
C26_Witness ==
    /\ formatText = JoinLines(<< << "1", ".", " ", "o" >>, BulletLine, PlainLine >>)
    /\ formatHtml = << "<ol>", "<li>", "o", "<ul>", "<li>", "u", "</li>", "</ul>",
                       "</li>", "</ol>", "<p>", "d", "</p>" >>

\* this step is a send with images staged
ImageSendStep == StartStep /\ Len(stagedImages) > 0

\* C27: the preview is shown exactly while images are staged, in every
\* reachable state; a send with images leaves nothing staged and the preview
\* hidden, and the user message it appends carries the images that were staged,
\* in staging order.
C27_PreviewIffStaged ==
    /\ [](showImagePreview <=> Len(stagedImages) > 0)
    /\ [][ ImageSendStep =>
              /\ stagedImages' = <<>>
              /\ ~showImagePreview'
              /\ Len(messages') = Len(messages) + 1
              /\ messages'[Len(messages')].sender = "user"
              /\ messages'[Len(messages')].images = stagedImages
          ]_vars

\* C27 witness: two different images were staged and sent: the message carries
\* them in staging order, nothing is staged and the preview is hidden.
C27_Witness ==
    /\ Len(messages) >= 1
    /\ messages[1].images = << DataUrl([type |-> PngType, size |-> MaxFileSize + 1]),
                               DataUrl([type |-> PngType, size |-> 1]) >>
    /\ stagedImages = <<>>
    /\ ~showImagePreview

\* C29: in every reachable state, i.e. whenever no handler is running, the
\* typing indicator is set exactly when the generation can be stopped.
C29_TypingIffStoppable == isTyping <=> canStopGeneration

\* C29 witness: after a stop, whose timer is still pending, a further
\* generation is in flight: both flags are set again.
C29_Witness ==
    /\ isTyping
    /\ canStopGeneration
    /\ Len(pending) = 2
    /\ pending[1].cancelled

\* C28: with the timers of the backend stub running in the end, whenever a
\* generation is in flight (the typing indicator is set) a state follows in
\* which the typing indicator is not set, whatever the user sends, edits,
\* regenerates or stops in between.
C28_TypingEnds == isTyping ~> ~isTyping

\* C28 witness: the generation of a send was answered by its timer, and no
\* timer is left.
C28_Witness ==
    /\ ~isTyping
    /\ pending = <<>>
    /\ Len(messages) = 2
    /\ messages[2] = Message(TextResponse, "lexi", <<>>, FALSE)

\* C30: whenever the session is not recording, no interval of the duration
\* tick is live and the elapsed duration is 0, in every interleaving of the
\* clicks, the answers to the permission requests and the ticks.
C30_IdleHasNoTick ==
    ~isRecording =>
        /\ ~recordingTimer
        /\ ~leakedInterval
        /\ recordingDuration = 0

\* this step delivers a result event of the platform
ResultStep == \E s \in Segments : onresult(<<s>>)

\* C31: a result event delivered while the session is not recording, after
\* stopRecording, cancelVoiceRecording or a reset, changes neither the
\* committed transcript nor the input buffer; after a cancel both stay empty.
C31_IdleResultIgnored ==
    [][ (ResultStep /\ ~isRecording) => UNCHANGED <<voiceTranscript, userInput>> ]_vars

\* this step is a send the component accepted
AcceptedSendStep == StartStep

\* C32: after every accepted send, on the text path and on the image path,
\* the input buffer and the committed transcript are empty and
\* hasVoiceTranscript is false.
C32_SendClearsVoice ==
    [][ AcceptedSendStep =>
           /\ userInput' = <<>>
           /\ voiceTranscript' = <<>>
           /\ ~hasVoiceTranscript'
      ]_vars

\* C33: in every reachable state every assistant message of the timeline is
\* preceded by a user message: the timeline never starts with an assistant
\* message, also when the history was cleared with a generation in flight.
C33_AssistantFollowsUser ==
    \A k \in 1..Len(messages) :
       messages[k].sender = "lexi" => \E j \in 1..(k - 1) : messages[j].sender = "user"

\* the tags of the list structure
ListTags == { "ol", "ul", "li" }

\* the tokens of an html from the k-th on are well nested in the list tags,
\* given the stack of the tags open before them (the innermost last)
RECURSIVE WellNested(_, _, _)
WellNested(html, k, open) ==
    IF k > Len(html) THEN open = <<>>
    ELSE IF \E tag \in ListTags : html[k] = "<" \o tag \o ">"
    THEN LET tag == CHOOSE t \in ListTags : html[k] = "<" \o t \o ">"
         IN  WellNested(html, k + 1, Append(open, tag))
    ELSE IF \E tag \in ListTags : html[k] = "</" \o tag \o ">"
    THEN LET tag == CHOOSE t \in ListTags : html[k] = "</" \o t \o ">"
         IN  /\ open # <<>>
             /\ open[Len(open)] = tag
             /\ WellNested(html, k + 1, SubSeq(open, 1, Len(open) - 1))
    ELSE WellNested(html, k + 1, open)

\* C34: what parseLines emits for any lines (numbered, bullet, blank, plain)
\* is well nested: every <ol>, <ul> and <li> has its closing tag in nesting
\* order, and no closing tag comes without its opening tag.
C34_WellNested == WellNested(formatHtml, 1, <<>>)

\* C35: in every reachable state an open edit addresses an existing message
\* of the timeline whose sender is user, for any interleaving of
\* startEditingMessage with send, regenerateResponse, stopGeneration,
\* clearConversationHistory and the backend completions.
C35_EditAddressesUserMessage ==
    editingMessageIndex # NULL =>
        /\ editingMessageIndex < Len(messages)
        /\ messages[editingMessageIndex + 1].sender = "user"

====
